---- MODULE Spec2Model ----
(***************************************************************************)
(* Verification model of CodeMachine-local: the workflow engine's cursor   *)
(* and loop-back control, the instance tracker, the Local engine runner    *)
(* (runLocal) with its stream decoder, and the per-agent memory store.     *)
(* Indices are 0-based as in the TypeScript source; a TLA+ sequence s      *)
(* holds the element of index i at s[i + 1].                               *)
(***************************************************************************)
EXTENDS Integers, Sequences, FiniteSets, TLC

VARIABLES
  \* ---- workflow engine
  template,        \* the WorkflowTemplate of this run: a sequence of WorkflowStep
  cursor,          \* index of the step the engine is at; Len(template) when past the last
  loopCount,       \* loop-back count per trigger
  completedSteps,  \* indices of the steps that completed successfully in this run
  activeLoop,      \* agent ids passed over while the current loop-back is replayed
  stepOutput,      \* markers found in the output of the last invoked step
  lastInvoked,     \* index of the step invoked by the latest engine move, -1 if none
  invoked,         \* the agents invoked so far, in order, when the run is traced
  \* ---- instance tracker
  instances,       \* instance id -> "absent" | "running" | "completed" | "error" | "terminated"
  signals,         \* outcomes reported for an instance and not yet recorded
  raised,          \* <<instance id, source>> pairs whose outcome was already reported
  \* ---- runLocal, one invocation
  rlPc,            \* "idle" | "spawned" (awaiting spawnProcess) | "returned" | "threw"
  rlOptions,       \* the options of the call: prompt and workingDir
  plainLogs,       \* CODEMACHINE_PLAIN_LOGS is '1'
  spawnCalls,      \* number of spawnProcess calls made by the invocation
  stdoutSeen,      \* the stdout chunks handed to onStdout so far
  onDataLog,       \* the arguments of the onData calls so far
  spawnSettled,    \* how spawnProcess settled: its rejection or its result
  rlError,         \* the error runLocal threw
  rlResult,        \* the value runLocal returned
  rlDiagnostics,   \* the lines logged as the failure's error output
  \* ---- memory store
  memory,          \* agent id -> content of the agent's memory file
  lastSuccess,     \* agent id -> stdout of the agent's latest successful run
  successes,       \* agent id -> number of successful runs so far
  runsDone,        \* number of engine runs so far
  \* ---- runLocal, the stderr stream
  stderrChunk,     \* the stderr chunk handed to onStderr
  onErrorData,     \* the argument of the onErrorData call made for it
  stderrSeen,      \* the stderr chunks handed to onStderr so far, when all are followed
  onErrorLog,      \* the arguments of the onErrorData calls made for them
  \* ---- process runner, one call
  prPc,            \* "idle" | "running" | "terminating" | "settled"
  prOption,        \* the timeout option of the call
  prTimeoutMs,     \* the timeout the call runs under, in ms
  prSleepMs,       \* how long the child runs when left alone, in ms
  prExitCode,      \* the code the child exits with when left alone
  prElapsed,       \* ms since the spawn
  prSignals,       \* the signals sent to the child so far
  prOutcome,       \* how the call settled: its result or its typed failure
  \* ---- engine authentication
  engine,          \* the provider: "claude" | "local"
  homeDir,         \* the provider's home directory: "absent" | "present" | "blocked"
  authFiles,       \* auth file -> "absent" | "real" | "placeholder"
  envToken,        \* CLAUDE_CODE_OAUTH_TOKEN is set
  skipAuth,        \* CODEMACHINE_SKIP_AUTH is '1'
  cliInstalled,    \* the provider's CLI binary is on the PATH
  auCall,          \* the latest auth call: operation, outcome, commands run
  loggedOut,       \* "no", or since the latest clearAuth that completed, with no
                   \* ensureAuth succeeding after it: "cleared" when it removed the
                   \* credential file, "kept" when that removal failed
  \* ---- CLI pre-action hook, one command
  hkPc,            \* "idle" | "loop" | "inSync" | "inBootstrap" | "hookDone" | "done" | "failed"
  hkRegistry,      \* the registered engines in registry order: engine -> it defines syncConfig
  hkIdx,           \* index of the engine the loop is at (0-based)
  hkLog,           \* the calls the command has started and finished, in order
  cmRoot,          \* <cwd>/.codemachine: "absent" | "present"
  cmContent,       \* what is under it: "none" | "existing" | "default" | "partial"
  hkPre,           \* cmRoot and cmContent when the hook started
  \* ---- template selection
  activeTemplate,  \* the tracked active template, "none" when nothing is tracked
  agentsDir,       \* the template the agents folder was generated from, "absent", "partial"
  tplCall,         \* the latest selection: template, marker and folder before, outcome
  \* ---- retry/recovery controller
  ledger,          \* the tasks in ledger order: step and done
  rcPc,            \* "running" | "halted" | "completed" | "finalized"
  rcEntry,         \* the step the workflow was last entered at
  rcCursor,        \* the step the workflow is at
  rcSignals,       \* number of completion signals emitted by the controller
  rcReentries,     \* number of times the controller re-entered the workflow
  rcHalts,         \* number of halts so far
  \* ---- resolveModel
  rmCalls          \* the calls so far: model name and result

wfVars == <<template, cursor, loopCount, completedSteps, activeLoop, stepOutput,
            lastInvoked, invoked>>

trVars == <<instances, signals, raised>>

rlVars == <<rlPc, rlOptions, plainLogs, spawnCalls, stdoutSeen, onDataLog,
            spawnSettled, rlError, rlResult, rlDiagnostics>>

memVars == <<memory, lastSuccess, successes, runsDone>>

seVars == <<stderrChunk, onErrorData, stderrSeen, onErrorLog>>

prVars == <<prPc, prOption, prTimeoutMs, prSleepMs, prExitCode, prElapsed, prSignals, prOutcome>>

auVars == <<engine, homeDir, authFiles, envToken, skipAuth, cliInstalled, auCall, loggedOut>>

hkVars == <<hkPc, hkRegistry, hkIdx, hkLog, cmRoot, cmContent, hkPre>>

tpVars == <<activeTemplate, agentsDir, tplCall>>

rcVars == <<ledger, rcPc, rcEntry, rcCursor, rcSignals, rcReentries, rcHalts>>

rmVars == <<rmCalls>>

coreVars == <<wfVars, trVars, rlVars, memVars>>

\* The variables of the CLI layer, the recovery controller and resolveModel.
cliVars == <<hkVars, tpVars, rcVars, rmVars>>

\* The variables of the components added after the first four.
extVars == <<seVars, prVars, auVars, cliVars>>

vars == <<wfVars, trVars, rlVars, memVars, extVars>>

Max(a, b) == IF a >= b THEN a ELSE b

Range(xs) == {xs[k] : k \in 1..Len(xs)}

(***************************************************************************)
(* Text: a string is a sequence of characters. A JSON document, a piece of *)
(* text that is not JSON, an ANSI escape sequence and the 'data: ' prefix  *)
(* are each carried by one symbol.                                         *)
(***************************************************************************)
LF == "\n"
CR == "\r"
SP == " "
ESC == "ESC[m"

IsLineTerminator(c) == c \in {LF, CR}

IsWhitespace(c) == c \in {SP, LF, CR}

SubStr(s, from, to) == [k \in 1..(to - from + 1) |-> s[from + k - 1]]

\* String.prototype.trim
RECURSIVE TrimStart(_)
TrimStart(s) ==
  IF s # <<>> /\ IsWhitespace(Head(s)) THEN TrimStart(Tail(s)) ELSE s

RECURSIVE TrimEnd(_)
TrimEnd(s) ==
  IF s # <<>> /\ IsWhitespace(s[Len(s)]) THEN TrimEnd(SubStr(s, 1, Len(s) - 1)) ELSE s

Trim(s) == TrimEnd(TrimStart(s))

\* String.prototype.split('\n'): the pieces between line feeds, at least one.
RECURSIVE SplitLF(_)
SplitLF(s) ==
  LET cut == {k \in 1..Len(s) : s[k] = LF} IN
    IF cut = {} THEN <<s>>
    ELSE LET k == CHOOSE c \in cut : \A d \in cut : c <= d
         IN  <<SubStr(s, 1, k - 1)>> \o SplitLF(SubStr(s, k + 1, Len(s)))

\* Array.prototype.slice(0, n)
SliceFirst(xs, n) == SubStr(xs, 1, IF Len(xs) < n THEN Len(xs) ELSE n)

\* The end of the longest run of non-line-terminators that starts at p:
\* the index of the first line terminator at or after p, Len(s) + 1 if none.
RECURSIVE RunEnd(_, _)
RunEnd(s, p) ==
  IF p > Len(s) \/ IsLineTerminator(s[p]) THEN p ELSE RunEnd(s, p + 1)

\* text.replace(/^.*\r([^\r\n]*)/gm, '$1'), scanning from position p.
\* '^' (flag m) holds at the start and after a line terminator, '.' matches no
\* line terminator, so a match at p is the run from p, the carriage return
\* that ends it and the run after it; only that last run is kept.
RECURSIVE CollapseFrom(_, _)
CollapseFrom(s, p) ==
  IF p > Len(s) THEN <<>>
  ELSE LET q == RunEnd(s, p)
           atLineStart == p = 1 \/ IsLineTerminator(s[p - 1])
       IN  IF atLineStart /\ q <= Len(s) /\ s[q] = CR
             THEN LET r == RunEnd(s, q + 1)
                  IN  SubStr(s, q + 1, r - 1) \o CollapseFrom(s, r)
             ELSE <<s[p]>> \o CollapseFrom(s, p + 1)

CollapseCarriageReturns(s) == CollapseFrom(s, 1)

\* text.replace(ANSI_ESCAPE_SEQUENCE, '')
StripAnsi(s) == SelectSeq(s, LAMBDA c : c # ESC)

\* text.replace(/\r\n/g, '\n')
RECURSIVE ReplaceCRLF(_)
ReplaceCRLF(s) ==
  IF s = <<>> THEN <<>>
  ELSE IF Len(s) >= 2 /\ s[1] = CR /\ s[2] = LF
         THEN <<LF>> \o ReplaceCRLF(SubStr(s, 3, Len(s)))
         ELSE <<Head(s)>> \o ReplaceCRLF(Tail(s))

\* text.replace(/\r/g, '\n')
ReplaceCR(s) == [k \in 1..Len(s) |-> IF s[k] = CR THEN LF ELSE s[k]]

CollapseNewlinesKept(s) == s

\* text.replace(/\n{3,}/g, '\n\n')
RECURSIVE CollapseNewlines(_)
CollapseNewlines(s) ==
  IF s = <<>> THEN <<>>
  ELSE IF Len(s) >= 3 /\ s[1] = LF /\ s[2] = LF /\ s[3] = LF
         THEN LET rest == CollapseNewlines(Tail(s))
              IN  rest
         ELSE <<Head(s)>> \o CollapseNewlines(Tail(s))

\* normalize, the closure of runLocal applied to every chunk.
Normalize(text, plain) ==
  LET collapsed == CollapseCarriageReturns(text)
      stripped == IF plain THEN StripAnsi(collapsed) ELSE collapsed
  IN  CollapseNewlines(ReplaceCR(ReplaceCRLF(stripped)))

(***************************************************************************)
(* Stream events and their decoding (formatLocalStreamJsonLine)            *)
(***************************************************************************)
ToolCallTypes == {"mcp_call", "mcp_approval_request", "custom_tool_call"}

\* The fields of a parsed event that the decoder reads. out is the type of
\* output[0], or "absent" (no output field) or "empty" (an empty array);
\* content tells whether output[0].content exists; error is "absent" (no
\* error field), "nocode" (error without code), "zero" or "nonzero".
Events ==
  [status : {"completed", "started", "none"},
   type : {"in_progress", "incomplete", "calling", "none"},
   out : {"absent", "empty", "reasoning", "message", "other"} \cup ToolCallTypes,
   content : {"absent", "present"},
   error : {"absent", "nocode", "zero", "nonzero"},
   usage : {"absent", "present"}]

NullLine == [kind |-> "null"]

ProgressKinds ==
  {"THINKING", "COMMAND", "COMMAND RESULT", "COMMAND FAILED", "MESSAGE", "TOKENS"}

Line(kind) == [kind |-> kind]

\* The decoder on a parsed event; every TypeError it raises on a missing
\* field is caught and gives null.
FormatEvent(json) ==
  IF json.status = "completed" /\ json.out = "absent" THEN NullLine
  ELSE IF json.status = "completed" /\ json.out = "reasoning"
    THEN (IF json.content = "absent" THEN NullLine ELSE Line("THINKING"))
  ELSE IF json.type \in {"in_progress", "incomplete", "calling"} /\ json.out = "absent"
    THEN NullLine
  ELSE IF json.type \in {"in_progress", "incomplete", "calling"} /\ json.out \in ToolCallTypes
    THEN Line("COMMAND")
  ELSE IF json.status = "completed" /\ json.out \in ToolCallTypes
    THEN (IF json.error = "absent" THEN NullLine
          ELSE IF json.error \in {"nocode", "zero"} THEN Line("COMMAND RESULT")
          ELSE Line("COMMAND FAILED"))
  ELSE IF json.status = "completed" /\ json.out = "message"
    THEN (IF json.content = "absent" THEN NullLine ELSE Line("MESSAGE"))
  ELSE IF json.status \in {"started", "completed"}
    THEN (IF json.status = "completed" /\ json.usage = "present"
            THEN Line("TOKENS") ELSE NullLine)
  ELSE NullLine

Event(status, type, out, content, error, usage) ==
  [status |-> status, type |-> type, out |-> out, content |-> content,
   error |-> error, usage |-> usage]

\* The JSON documents that occur in the streams checked, one symbol each.
EventOf ==
  [thinking |-> Event("completed", "none", "reasoning", "present", "absent", "absent"),
   calling |-> Event("none", "calling", "mcp_call", "absent", "absent", "absent"),
   toolOk |-> Event("completed", "none", "mcp_call", "absent", "zero", "absent"),
   toolFailed |-> Event("completed", "none", "mcp_call", "absent", "nonzero", "absent"),
   toolNoError |-> Event("completed", "none", "custom_tool_call", "absent", "absent", "absent"),
   message |-> Event("completed", "none", "message", "present", "absent", "absent"),
   usage |-> Event("completed", "none", "empty", "absent", "absent", "present"),
   started |-> Event("started", "none", "absent", "absent", "absent", "absent")]

EventSymbols == DOMAIN EventOf

\* Text that is not JSON, and the 'data: ' prefix of a server-sent event.
GARBAGE == "garbage"
DATA == "data: "

\* formatLocalStreamJsonLine on a string: JSON.parse accepts one document
\* with white space around it and throws on anything else; the throw is
\* caught and gives null.
FormatLocalStreamJsonLine(line) ==
  LET body == SelectSeq(line, LAMBDA c : ~IsWhitespace(c)) IN
    IF Len(body) = 1 /\ body[1] \in EventSymbols
      THEN FormatEvent(EventOf[body[1]])
      ELSE NullLine

(***************************************************************************)
(* runLocal: the Local engine's runner                                     *)
(***************************************************************************)
\* metadata of the Local engine
CliCommand == "curl"
EngineName == "Local"
InstallCommand == "Install LM Studio from https://lmstudio.ai/"
Stream == FALSE

MaxChunks == 2
MaxLines == 11
DiagLimit == 10

NoValue == [kind |-> "none"]

Prompts == {"", "prompt"}
WorkingDirs == {"", "/work"}

ValidationErrorPromptOnly(prompt, workingDir) ==
  IF prompt = "" THEN [kind |-> "Error", message |-> "runLocal requires a prompt."]
  ELSE NoValue

\* The two argument checks at the top of runLocal.
ValidationError(prompt, workingDir) ==
  IF prompt = "" THEN [kind |-> "Error", message |-> "runLocal requires a prompt."]
  ELSE IF workingDir = ""
    THEN [kind |-> "Error", message |-> "runLocal requires a working directory."]
  ELSE NoValue

\* What spawnProcess can reject with: an error with a code and a message.
RunnerErrors ==
  [kind : {"Error"},
   code : {"ENOENT", "EACCES", "none"},
   message : {"is not recognized as an internal or external command",
              "command not found", "spawn failed"}]

NotFound(err) ==
  \/ err.code = "ENOENT"
  \/ err.message = "is not recognized as an internal or external command"
  \/ err.message = "command not found"

NotAvailableError ==
  [kind |-> "Error", message |-> "is not available on this system. Please install first",
   command |-> CliCommand, name |-> EngineName, install |-> InstallCommand]

SpawnFailureAlwaysTranslated(err) == NotAvailableError

\* The catch block around spawnProcess: what runLocal throws for err.
SpawnFailure(err) == IF NotFound(err) THEN NotAvailableError ELSE err

ExitCodes == {0, 1, 2}

ExitError(exitCode) ==
  [kind |-> "Error", message |-> "Local CLI exited with code", exitCode |-> exitCode]

NoErrorOutput == <<"no error output">>

\* a || b on strings: the empty string is falsy.
OrElse(a, b) == IF a # <<>> THEN a ELSE b

DiagnosticsLastLines(stdout, stderr) ==
  LET errorOutput == OrElse(Trim(stderr), OrElse(Trim(stdout), NoErrorOutput))
      lines == SplitLF(errorOutput)
  IN  SubStr(lines, Max(1, Len(lines) - DiagLimit + 1), Len(lines))

\* The error output logged on a non-zero exit.
Diagnostics(stdout, stderr) ==
  LET errorOutput == OrElse(Trim(stderr), OrElse(Trim(stdout), NoErrorOutput))
  IN  SliceFirst(SplitLF(errorOutput), DiagLimit)

OnDataCallsUnfiltered(formatted) == <<[kind |-> formatted.kind, newline |-> TRUE]>>

\* The onData calls made for a decoded line: one when it is not null.
OnDataCalls(formatted) ==
  IF formatted # NullLine THEN <<[kind |-> formatted.kind, newline |-> TRUE]>> ELSE <<>>

StartsWithData(s) == s # <<>> /\ Head(s) = DATA

\* The onStdout callback up to the decoder: the line handed to
\* formatLocalStreamJsonLine for a chunk.
StreamData(chunk) ==
  LET out == Normalize(chunk, plainLogs) IN
    IF Stream /\ StartsWithData(Trim(out)) THEN Tail(Trim(out)) ELSE out

\* Result and stream texts.
LineNames == <<"a", "b", "c", "d", "e", "f", "g", "h", "i", "j", "k", "l", "m", "n">>

RECURSIVE TextOfLines(_)
TextOfLines(n) ==
  IF n = 0 THEN <<>>
  ELSE IF n = 1 THEN <<LineNames[1]>>
  ELSE TextOfLines(n - 1) \o <<LF, LineNames[n]>>

\* Texts of 0..MaxLines lines, bare or with white space and blank lines
\* around them.
ResultTexts ==
  {TextOfLines(n) : n \in 0..MaxLines}
  \cup {<<SP, LF>> \o TextOfLines(n) \o <<LF, SP>> : n \in 0..MaxLines}

BriefTexts == {<<>>}

BriefChunks == {<<"message", LF>>, <<GARBAGE, LF>>}

LineBodies == EventSymbols \cup {GARBAGE}

\* A chunk of one line with any ending, of one line behind a prefix, or of
\* two lines.
StdoutChunks ==
  {<<b, LF>> : b \in LineBodies}
  \cup {<<b>> \o end : b \in {"message", GARBAGE}, end \in {<<>>, <<CR, LF>>}}
  \cup {<<DATA, "message", LF>>}
  \cup {<<b1, LF, b2, LF>> : b1 \in {"message", "started", GARBAGE},
                             b2 \in {"message", "started", GARBAGE}}

RlIdle ==
  /\ rlPc = "idle"
  /\ rlOptions = NoValue
  /\ spawnCalls = 0
  /\ stdoutSeen = <<>>
  /\ onDataLog = <<>>
  /\ spawnSettled = NoValue
  /\ rlError = NoValue
  /\ rlResult = NoValue
  /\ rlDiagnostics = <<>>

RlInit == RlIdle /\ plainLogs \in BOOLEAN

\* runLocal is called: the argument checks, then the spawnProcess call.
Invoke(prompt, workingDir) ==
  /\ rlPc = "idle"
  /\ rlOptions' = [prompt |-> prompt, workingDir |-> workingDir]
  /\ LET err == ValidationError(prompt, workingDir) IN
       IF err # NoValue
         THEN /\ rlPc' = "threw"
              /\ rlError' = err
              /\ UNCHANGED spawnCalls
         ELSE /\ rlPc' = "spawned"
              /\ spawnCalls' = spawnCalls + 1
              /\ UNCHANGED rlError
  /\ UNCHANGED <<plainLogs, stdoutSeen, onDataLog, spawnSettled, rlResult, rlDiagnostics,
                 wfVars, trVars, memVars, extVars>>

\* spawnProcess hands a stdout chunk to the onStdout callback.
OnStdout(chunk) ==
  /\ rlPc = "spawned"
  /\ Len(stdoutSeen) < MaxChunks
  /\ stdoutSeen' = Append(stdoutSeen, chunk)
  /\ onDataLog' = onDataLog \o OnDataCalls(FormatLocalStreamJsonLine(StreamData(chunk)))
  /\ UNCHANGED <<rlPc, rlOptions, plainLogs, spawnCalls, spawnSettled, rlError, rlResult,
                 rlDiagnostics, wfVars, trVars, memVars, extVars>>

\* spawnProcess rejects: the catch block.
SpawnRejects(err) ==
  /\ rlPc = "spawned"
  /\ spawnSettled' = [kind |-> "rejected", error |-> err]
  /\ rlError' = SpawnFailure(err)
  /\ rlPc' = "threw"
  /\ UNCHANGED <<rlOptions, plainLogs, spawnCalls, stdoutSeen, onDataLog, rlResult,
                 rlDiagnostics, wfVars, trVars, memVars, extVars>>

\* spawnProcess resolves with the child's exit code and its whole output.
SpawnResolves(exitCode, stdout, stderr) ==
  /\ rlPc = "spawned"
  /\ spawnSettled' = [kind |-> "resolved", exitCode |-> exitCode, stdout |-> stdout,
                      stderr |-> stderr]
  /\ IF exitCode # 0
       THEN /\ rlDiagnostics' = Diagnostics(stdout, stderr)
            /\ rlError' = ExitError(exitCode)
            /\ rlPc' = "threw"
            /\ UNCHANGED rlResult
       ELSE /\ rlResult' = [stdout |-> stdout, stderr |-> stderr]
            /\ rlPc' = "returned"
            /\ UNCHANGED <<rlError, rlDiagnostics>>
  /\ UNCHANGED <<rlOptions, plainLogs, spawnCalls, stdoutSeen, onDataLog, wfVars, trVars,
                 memVars, extVars>>

RlNext(chunks, texts) ==
  \/ \E prompt \in Prompts, workingDir \in WorkingDirs : Invoke(prompt, workingDir)
  \/ \E chunk \in chunks : OnStdout(chunk)
  \/ \E err \in RunnerErrors : SpawnRejects(err)
  \/ \E exitCode \in ExitCodes, stdout \in texts, stderr \in texts :
       SpawnResolves(exitCode, stdout, stderr)

\* ---- the stderr stream
MaxChunkLen == 6

\* Raw output: text, carriage returns and line feeds in any arrangement.
RawChars == {"a", "b", CR, LF}

StderrChunks == UNION {[1..n -> RawChars] : n \in 0..MaxChunkLen}

\* No chunk yet: a text no stream holds.
NoChunk == <<"none">>

SeIdle ==
  /\ stderrChunk = NoChunk
  /\ onErrorData = NoChunk
  /\ stderrSeen = <<>>
  /\ onErrorLog = <<>>

\* spawnProcess hands a stderr chunk to the onStderr callback, which passes
\* the normalized chunk on; the model follows one chunk of the stream.
OnStderr(chunk) ==
  /\ rlPc = "spawned"
  /\ stderrChunk = NoChunk
  /\ stderrChunk' = chunk
  /\ onErrorData' = Normalize(chunk, plainLogs)
  /\ UNCHANGED <<stderrSeen, onErrorLog, rlVars, wfVars, trVars, memVars, prVars, auVars,
                 cliVars>>

StderrNext ==
  \/ \E prompt \in Prompts, workingDir \in WorkingDirs : Invoke(prompt, workingDir)
  \/ \E chunk \in StderrChunks : OnStderr(chunk)

\* ---- the stderr stream, chunk after chunk
MaxErrChunks == 2
MaxErrLen == 4

RECURSIVE Flatten(_)
Flatten(chunks) == IF chunks = <<>> THEN <<>> ELSE Head(chunks) \o Flatten(Tail(chunks))

\* The chunks a stream delivers: never empty.
StreamChunks == UNION {[1..n -> RawChars] : n \in 1..MaxErrLen}

\* spawnProcess hands the next stderr chunk of the stream to the onStderr
\* callback, which passes the normalized chunk on; the model follows every
\* chunk of a stream of up to MaxErrChunks chunks and MaxErrLen characters.
OnStderrChunk(chunk) ==
  /\ rlPc = "spawned"
  /\ Len(stderrSeen) < MaxErrChunks
  /\ Len(Flatten(stderrSeen)) + Len(chunk) <= MaxErrLen
  /\ stderrSeen' = Append(stderrSeen, chunk)
  /\ onErrorLog' = Append(onErrorLog, Normalize(chunk, plainLogs))
  /\ UNCHANGED <<stderrChunk, onErrorData, rlVars, wfVars, trVars, memVars, prVars,
                 auVars, cliVars>>

StderrStreamNext ==
  \/ \E prompt \in Prompts, workingDir \in WorkingDirs : Invoke(prompt, workingDir)
  \/ \E chunk \in StreamChunks : OnStderrChunk(chunk)

(***************************************************************************)
(* Memory store: one file per agent, written after a successful run        *)
(***************************************************************************)
MaxRuns == 3
MaxOutLen == 2

MemoryAgents == {"frontend-dev", "backend-dev"}

BOILERPLATE == "boilerplate"

\* The stdout of an engine run: text with boilerplate in it.
RunOutputs ==
  UNION {[1..n -> {"x", "y", BOILERPLATE}] : n \in 0..MaxOutLen}

\* Output sanitization: boilerplate and system-prompt echoes are stripped.
Sanitize(out) == SelectSeq(out, LAMBDA c : c # BOILERPLATE)

MemoryAppend(old, content) == old \o content

\* The memory write: the content supersedes the file.
MemoryWrite(old, content) == content

MemIdle ==
  /\ memory = [a \in MemoryAgents |-> <<>>]
  /\ lastSuccess = [a \in MemoryAgents |-> NoValue]
  /\ successes = [a \in MemoryAgents |-> 0]
  /\ runsDone = 0

MemInit == MemIdle

\* One engine run for an agent: the engine's run returns its result when the
\* child exits with code 0 and throws otherwise; on success the sanitized
\* output is stored, on failure the error is only logged.
RunAgent(agent, exitCode, stdout) ==
  /\ runsDone < MaxRuns
  /\ runsDone' = runsDone + 1
  /\ IF exitCode = 0
       THEN /\ memory' = [memory EXCEPT ![agent] = MemoryWrite(@, Sanitize(stdout))]
            /\ lastSuccess' = [lastSuccess EXCEPT ![agent] = stdout]
            /\ successes' = [successes EXCEPT ![agent] = @ + 1]
       ELSE UNCHANGED <<memory, lastSuccess, successes>>
  /\ UNCHANGED <<wfVars, trVars, rlVars, extVars>>

MemNext ==
  \E agent \in MemoryAgents, exitCode \in ExitCodes, stdout \in RunOutputs :
    RunAgent(agent, exitCode, stdout)

(***************************************************************************)
(* Workflow templates (src/workflows/utils/types.ts)                       *)
(***************************************************************************)
MaxBack == 2
MaxIter == 2

AgentIds == <<"Plan", "Build", "Test">>
NumSteps == Len(AgentIds)
Triggers == {"FAIL", "RETRY"}

\* ModuleMetadata.behavior is optional: a step without one carries NoBehavior.
NoBehavior ==
  [type |-> "none", action |-> "none", steps |-> 0, trigger |-> "",
   maxIterations |-> 0, skip |-> {}]

StepIds == {AgentIds[k] : k \in 1..NumSteps}

SkipChoices == {{}} \cup {{a} : a \in StepIds}

LoopBehaviorConfig ==
  {[type |-> "loop", action |-> "stepBack", steps |-> s, trigger |-> t,
    maxIterations |-> m, skip |-> k] :
      s \in 1..MaxBack, t \in Triggers, m \in 0..MaxIter, k \in SkipChoices}

WorkflowStep(k, once, b) ==
  [agentId |-> AgentIds[k], executeOnce |-> once, behavior |-> b]

\* The templates a run is checked on: every template with no loop, every
\* template with one LoopBehaviorConfig on any step and any executeOnce
\* marking, and every template with two skip-free loops.
NoLoopTemplates ==
  {[k \in 1..NumSteps |-> WorkflowStep(k, (k - 1) \in once, NoBehavior)] :
     once \in SUBSET (0..NumSteps - 1)}

OneLoopTemplates ==
  {[k \in 1..NumSteps |->
      WorkflowStep(k, (k - 1) \in once, IF k = p THEN b ELSE NoBehavior)] :
     p \in 1..NumSteps, b \in LoopBehaviorConfig, once \in SUBSET (0..NumSteps - 1)}

TwoLoopTemplates ==
  {[k \in 1..NumSteps |->
      WorkflowStep(k, FALSE,
                   IF k = pq[1] THEN bb[1] ELSE IF k = pq[2] THEN bb[2] ELSE NoBehavior)] :
     pq \in {x \in (1..NumSteps) \X (1..NumSteps) : x[1] < x[2]},
     bb \in {b \in LoopBehaviorConfig : b.skip = {}} \X
            {b \in LoopBehaviorConfig : b.skip = {}}}

WorkflowTemplates == NoLoopTemplates \cup OneLoopTemplates \cup TwoLoopTemplates

(***************************************************************************)
(* Instance tracker: instance id -> lifecycle state                        *)
(***************************************************************************)
MaxInstances == 2

InstanceIds == 1..MaxInstances

TerminalStates == {"completed", "error", "terminated"}

\* What can end an instance, and the state each outcome records: the child
\* exits with code 0 or with another code, the timeout elapses, the cancel
\* token is triggered.
SignalSources == {"exit", "timeout", "cancel"}

Outcome(source, exitCode) ==
  IF source = "exit"
    THEN (IF exitCode = 0 THEN "completed" ELSE "error")
    ELSE "terminated"

MarkTerminalUnguarded(state, outcome) == outcome

\* The single terminal mutation: only a running instance changes state.
MarkTerminal(state, outcome) == IF state = "running" THEN outcome ELSE state

TrIdle ==
  /\ instances = [id \in InstanceIds |-> "absent"]
  /\ signals = {}
  /\ raised = {}

TrInit == TrIdle

\* Insert on spawn.
Spawn(id) ==
  /\ instances[id] = "absent"
  /\ instances' = [instances EXCEPT ![id] = "running"]
  /\ UNCHANGED <<signals, raised, wfVars, rlVars, memVars, extVars>>

\* The child process, the timer or the cancel token reports an outcome for a
\* spawned instance; each source reports once, at any time after the spawn.
Report(id, source, exitCode) ==
  /\ instances[id] # "absent"
  /\ <<id, source>> \notin raised
  /\ raised' = raised \cup {<<id, source>>}
  /\ signals' = signals \cup {[id |-> id, outcome |-> Outcome(source, exitCode)]}
  /\ UNCHANGED <<instances, wfVars, rlVars, memVars, extVars>>

\* The tracker records a reported outcome.
Settle(sig) ==
  /\ sig \in signals
  /\ instances' = [instances EXCEPT ![sig.id] = MarkTerminal(@, sig.outcome)]
  /\ signals' = signals \ {sig}
  /\ UNCHANGED <<raised, wfVars, rlVars, memVars, extVars>>

TrNext ==
  \/ \E id \in InstanceIds : Spawn(id)
  \/ \E id \in InstanceIds, source \in SignalSources, exitCode \in 0..1 :
       Report(id, source, exitCode)
  \/ \E sig \in signals : Settle(sig)

(***************************************************************************)
(* Process runner: one call under a timeout and a cancel token. Time is    *)
(* the number of ms since the spawn and moves from one event to the next.  *)
(***************************************************************************)
DefaultTimeoutMs == 1800000

\* The timeout option of a call: not given, or a number of ms.
Ms(n) == [kind |-> "ms", value |-> n]

TimeoutOptions == {NoValue, Ms(100), Ms(5000)}

\* How long the child runs when nothing stops it.
SleepTimes == {50, 100, 10000, 1800000, 2000000}

ClockTimes == SleepTimes \cup {100, 5000, DefaultTimeoutMs}

\* The instance that tracks the call.
PrInstance == 1

TimeoutOfShortDefault(timeout) == IF timeout = NoValue THEN 100 ELSE timeout.value

\* The timeout a call runs under: runLocal's default when none is given.
TimeoutOf(timeout) == IF timeout = NoValue THEN DefaultTimeoutMs ELSE timeout.value

TimeoutError == [kind |-> "Timeout"]

CancelledError == [kind |-> "Cancelled"]

PrIdle ==
  /\ prPc = "idle"
  /\ prOption = NoValue
  /\ prTimeoutMs = 0
  /\ prSleepMs = 0
  /\ prExitCode = 0
  /\ prElapsed = 0
  /\ prSignals = <<>>
  /\ prOutcome = NoValue

PrInit == PrIdle

\* The call spawns the child and inserts its instance.
PrRun(timeout, sleepMs, exitCode) ==
  /\ prPc = "idle"
  /\ prPc' = "running"
  /\ prOption' = timeout
  /\ prTimeoutMs' = TimeoutOf(timeout)
  /\ prSleepMs' = sleepMs
  /\ prExitCode' = exitCode
  /\ prElapsed' = 0
  /\ instances' = [instances EXCEPT ![PrInstance] = "running"]
  /\ UNCHANGED <<prSignals, prOutcome, signals, raised, wfVars, rlVars, memVars, seVars,
                 auVars, cliVars>>

\* Time passes while the child runs, up to the next event: its exit or the
\* timeout.
PrAdvance(t) ==
  /\ prPc = "running"
  /\ prElapsed < t
  /\ t <= prSleepMs
  /\ t <= prTimeoutMs
  /\ prElapsed' = t
  /\ UNCHANGED <<prPc, prOption, prTimeoutMs, prSleepMs, prExitCode, prSignals, prOutcome,
                 wfVars, trVars, rlVars, memVars, seVars, auVars, cliVars>>

\* The child exits by itself: the call returns its result and the tracker
\* records the exit.
PrChildExits ==
  /\ prPc = "running"
  /\ prElapsed = prSleepMs
  /\ prOutcome' = [kind |-> "result", exitCode |-> prExitCode]
  /\ instances' = [instances EXCEPT ![PrInstance] =
                     MarkTerminal(@, Outcome("exit", prExitCode))]
  /\ prPc' = "settled"
  /\ UNCHANGED <<prOption, prTimeoutMs, prSleepMs, prExitCode, prElapsed, prSignals,
                 signals, raised, wfVars, rlVars, memVars, seVars, auVars, cliVars>>

\* The timeout elapses while the child is running: the child is sent a
\* termination signal and the call fails with a Timeout error.
PrTimeout ==
  /\ prPc = "running"
  /\ prElapsed = prTimeoutMs
  /\ prSignals' = Append(prSignals, "SIGTERM")
  /\ prOutcome' = TimeoutError
  /\ instances' = [instances EXCEPT ![PrInstance] =
                     MarkTerminal(@, Outcome("timeout", prExitCode))]
  /\ prPc' = "terminating"
  /\ UNCHANGED <<prOption, prTimeoutMs, prSleepMs, prExitCode, prElapsed, signals, raised,
                 wfVars, rlVars, memVars, seVars, auVars, cliVars>>

\* The cancel token is triggered while the child is running: the same
\* termination path as the timeout.
PrCancel ==
  /\ prPc = "running"
  /\ prSignals' = Append(prSignals, "SIGTERM")
  /\ prOutcome' = CancelledError
  /\ instances' = [instances EXCEPT ![PrInstance] =
                     MarkTerminal(@, Outcome("cancel", prExitCode))]
  /\ prPc' = "terminating"
  /\ UNCHANGED <<prOption, prTimeoutMs, prSleepMs, prExitCode, prElapsed, signals, raised,
                 wfVars, rlVars, memVars, seVars, auVars, cliVars>>

\* The signalled child is gone, with any exit code: its exit reaches the
\* tracker after the termination was recorded.
PrChildGone(exitCode) ==
  /\ prPc = "terminating"
  /\ instances' = [instances EXCEPT ![PrInstance] =
                     MarkTerminal(@, Outcome("exit", exitCode))]
  /\ prPc' = "settled"
  /\ UNCHANGED <<prOption, prTimeoutMs, prSleepMs, prExitCode, prElapsed, prSignals,
                 prOutcome, signals, raised, wfVars, rlVars, memVars, seVars, auVars, cliVars>>

PrNext ==
  \/ \E timeout \in TimeoutOptions, sleepMs \in SleepTimes, exitCode \in ExitCodes :
       PrRun(timeout, sleepMs, exitCode)
  \/ \E t \in ClockTimes : PrAdvance(t)
  \/ PrChildExits
  \/ PrTimeout
  \/ PrCancel
  \/ \E exitCode \in ExitCodes : PrChildGone(exitCode)

(***************************************************************************)
(* Engine authentication (Claude and Local): isAuthenticated, ensureAuth,  *)
(* clearAuth and nextAuthMenuAction over the provider's home directory,    *)
(* its auth files and the environment.                                     *)
(***************************************************************************)
Engines == {"claude", "local"}

\* A directory is absent, present, or blocked: it is not there and cannot be
\* created (mkdir fails).
DirStates == {"absent", "present", "blocked"}

FileStates == {"absent", "real", "placeholder"}

\* getClaudeAuthPaths
ClaudeAuthPaths == {".credentials.json", ".claude.json", ".claude.json.backup"}

AllAuthFiles == ClaudeAuthPaths \cup {"auth.json"}

\* getCredentialsPath / getAuthFilePath
CredentialsPath(e) == IF e = "claude" THEN ".credentials.json" ELSE "auth.json"

\* The files clearAuth removes.
AuthPaths(e) == IF e = "claude" THEN ClaudeAuthPaths ELSE {"auth.json"}

\* mkdir(dir, { recursive: true })
MkdirOk(dir) == dir # "blocked"

\* How the version probe of isCliInstalled can end: the command ran and
\* exited with 0 or with another code, the spawn failed and execa (reject:
\* false) resolved with the failed result, or execa threw.
ProbeOutcomes == {"exit0", "exitNonZero", "spawnFailed", "thrown"}

\* How the login command can end: it exits with 0 having stored a credential
\* or not, it cannot be spawned, or it fails otherwise.
LoginOutcomes == {"credential", "noCredential", "notFound", "failed"}

\* isCliInstalled: Claude's returns true unless execa throws, Local's only
\* for exit code 0.
IsCliInstalled(e, probe) ==
  IF e = "claude" THEN probe # "thrown" ELSE probe = "exit0"

CliNotInstalled == "CLI is not installed."
AuthIncomplete == "Authentication incomplete. Please set CLAUDE_CODE_OAUTH_TOKEN environment variable."

\* What a call leaves: its result ("true", "false", "void", "login",
\* "logout" or "threw"), its error, the directory and files after it, the
\* external commands it ran and whether it showed the install command.
Out(result, error, dir, files, commands, shown) ==
  [result |-> result, error |-> error, homeDir |-> dir, authFiles |-> files,
   commands |-> commands, shown |-> shown]

Snapshot ==
  [homeDir |-> homeDir, authFiles |-> authFiles, envToken |-> envToken,
   skipAuth |-> skipAuth]

Cred == CredentialsPath(engine)

\* isAuthenticated. Local's resolves its home with resolveLocalHome first,
\* which creates the directory.
IsAuthenticatedResult ==
  IF engine = "claude"
    THEN Out(IF envToken \/ authFiles[Cred] # "absent" THEN "true" ELSE "false",
             "none", homeDir, authFiles, <<>>, FALSE)
  ELSE IF ~MkdirOk(homeDir)
    THEN Out("threw", "mkdir", homeDir, authFiles, <<>>, FALSE)
  ELSE Out(IF authFiles[Cred] # "absent" THEN "true" ELSE "false",
           "none", "present", authFiles, <<>>, FALSE)

SkipAuthIgnored == FALSE

\* process.env.CODEMACHINE_SKIP_AUTH === '1'
SkipAuthRequested == skipAuth

\* ensureAuth from the skip-auth check on, with the home directory in state
\* dir and no credential file.
EnsureAuthFrom(dir, probe, login) ==
  IF SkipAuthRequested
    THEN (IF engine = "claude" /\ ~MkdirOk(dir)
            THEN Out("threw", "mkdir", dir, authFiles, <<>>, FALSE)
            ELSE Out("true", "none", "present",
                     [authFiles EXCEPT ![Cred] = "placeholder"], <<>>, FALSE))
  ELSE IF ~IsCliInstalled(engine, probe)
    THEN Out("threw", CliNotInstalled, dir, authFiles, <<"probe">>, TRUE)
  ELSE IF login = "notFound"
    THEN Out("threw", CliNotInstalled, dir, authFiles, <<"probe", "login">>, TRUE)
  ELSE IF login = "failed"
    THEN Out("threw", "login failed", dir, authFiles, <<"probe", "login">>, FALSE)
  ELSE IF login = "credential"
    THEN Out("true", "none", "present", [authFiles EXCEPT ![Cred] = "real"],
             <<"probe", "login">>, FALSE)
  ELSE IF engine = "claude"
    THEN Out("threw", AuthIncomplete, dir, authFiles, <<"probe", "login">>, FALSE)
  ELSE Out("true", "none", dir, [authFiles EXCEPT ![Cred] = "placeholder"],
           <<"probe", "login">>, FALSE)

\* ensureAuth
EnsureAuthResult(probe, login) ==
  IF engine = "claude"
    THEN (IF envToken \/ authFiles[Cred] # "absent"
            THEN Out("true", "none", homeDir, authFiles, <<>>, FALSE)
            ELSE EnsureAuthFrom(homeDir, probe, login))
  ELSE IF ~MkdirOk(homeDir)
    THEN Out("threw", "mkdir", homeDir, authFiles, <<>>, FALSE)
  ELSE IF authFiles[Cred] # "absent"
    THEN Out("true", "none", "present", authFiles, <<>>, FALSE)
  ELSE EnsureAuthFrom("present", probe, login)

\* clearAuth: rm(path, { force: true }) of every auth path, the removals
\* of the paths in failing failing, their errors swallowed.
ClearAuthResult(failing) ==
  LET removed == [f \in AllAuthFiles |->
                    IF f \in AuthPaths(engine) /\ f \notin failing
                      THEN "absent" ELSE authFiles[f]]
  IN  IF engine = "claude"
        THEN Out("void", "none", homeDir, removed, <<>>, FALSE)
      ELSE IF ~MkdirOk(homeDir)
        THEN Out("threw", "mkdir", homeDir, authFiles, <<>>, FALSE)
      ELSE Out("void", "none", "present", removed, <<>>, FALSE)

MenuActionSwapped(authenticated) == IF authenticated = "true" THEN "login" ELSE "logout"

\* (await isAuthenticated()) ? 'logout' : 'login'
MenuAction(authenticated) == IF authenticated = "true" THEN "logout" ELSE "login"

\* nextAuthMenuAction
NextAuthMenuActionResult ==
  LET checked == IsAuthenticatedResult
  IN  IF checked.result = "threw" THEN checked
      ELSE [checked EXCEPT !.result = MenuAction(checked.result)]

NoCall == [op |-> "none", login |-> "none",
           out |-> Out("none", "none", homeDir, authFiles, <<>>, FALSE), pre |-> Snapshot]

AuIdle ==
  /\ engine = "local"
  /\ homeDir = "absent"
  /\ authFiles = [f \in AllAuthFiles |-> "absent"]
  /\ envToken = FALSE
  /\ skipAuth = FALSE
  /\ cliInstalled = FALSE
  /\ loggedOut = "no"
  /\ auCall = NoCall

\* Any provider, any home directory with any of the provider's auth files in
\* it, any environment, the CLI installed or not.
AuInit ==
  /\ engine \in Engines
  /\ homeDir \in DirStates
  /\ authFiles \in [AllAuthFiles -> FileStates]
  /\ \A f \in AllAuthFiles :
       authFiles[f] # "absent" => (f \in AuthPaths(engine) /\ homeDir = "present")
  /\ authFiles[".claude.json"] # "placeholder"
  /\ authFiles[".claude.json.backup"] # "placeholder"
  /\ envToken \in (IF engine = "claude" THEN BOOLEAN ELSE {FALSE})
  /\ skipAuth \in BOOLEAN
  /\ cliInstalled \in BOOLEAN
  /\ loggedOut = "no"
  /\ auCall = NoCall

\* A call with outcome out (login: how its login command ended, when it ran
\* one): the directory and the files it leaves and the record of the call.
Called(op, login, out) ==
  /\ homeDir' = out.homeDir
  /\ authFiles' = out.authFiles
  /\ auCall' = [op |-> op, login |-> login, out |-> out, pre |-> Snapshot]
  /\ loggedOut' = IF op = "clearAuth" /\ out.result = "void"
                    THEN (IF out.authFiles[Cred] = "absent" THEN "cleared" ELSE "kept")
                  ELSE IF op = "ensureAuth" /\ out.result = "true" THEN "no"
                  ELSE loggedOut
  /\ UNCHANGED <<engine, envToken, skipAuth, cliInstalled, wfVars, trVars, rlVars,
                 memVars, seVars, prVars, cliVars>>

IsAuthenticated == Called("isAuthenticated", "none", IsAuthenticatedResult)

\* The probe and the login command end as the presence of the binary lets
\* them; a login stores a credential only where the directory can exist.
EnsureAuth(probe, login) ==
  /\ probe \in (IF cliInstalled THEN {"exit0", "exitNonZero"} ELSE {"spawnFailed", "thrown"})
  /\ cliInstalled <=> login # "notFound"
  /\ login = "credential" => MkdirOk(homeDir)
  /\ LET out == EnsureAuthResult(probe, login)
     IN  Called("ensureAuth", IF "login" \in Range(out.commands) THEN login ELSE "none", out)

ClearAuth(failing) == Called("clearAuth", "none", ClearAuthResult(failing))

NextAuthMenuAction == Called("nextAuthMenuAction", "none", NextAuthMenuActionResult)

AuNext ==
  \/ IsAuthenticated
  \/ \E probe \in ProbeOutcomes, login \in LoginOutcomes : EnsureAuth(probe, login)
  \/ \E failing \in SUBSET AuthPaths(engine) : ClearAuth(failing)
  \/ NextAuthMenuAction

(***************************************************************************)
(* CLI pre-action hook: configuration sync of the registered engines, then *)
(* the workspace bootstrap, then the command action. Every await of the    *)
(* hook is a step.                                                         *)
(***************************************************************************)
MaxEngines == 3

\* registry.getAll(): up to MaxEngines engines in registry order, each
\* defining syncConfig or not.
Registries == UNION {[1..n -> BOOLEAN] : n \in 0..MaxEngines}

Ev(ev, id, ok) == [ev |-> ev, id |-> id, ok |-> ok]

\* if (engine.syncConfig)
DefinesSyncConfig(i) == hkRegistry[i + 1]

AfterSyncIgnoringFailure(ok) == "loop"

\* await engine.syncConfig(): a rejection ends the hook and the command.
AfterSync(ok) == IF ok THEN "loop" ELSE "failed"

NeedsBootstrapAlways(root) == TRUE

\* if (!existsSync(cmRoot))
NeedsBootstrap(root) == root = "absent"

HkIdle ==
  /\ hkPc = "idle"
  /\ hkRegistry = <<>>
  /\ hkIdx = 0
  /\ hkLog = <<>>
  /\ cmRoot = "absent"
  /\ cmContent = "none"
  /\ hkPre = [cmRoot |-> "absent", cmContent |-> "none"]

\* Any registry, in a directory with or without a .codemachine folder.
HkInit ==
  /\ hkPc = "idle"
  /\ hkRegistry \in Registries
  /\ hkIdx = 0
  /\ hkLog = <<>>
  /\ cmRoot \in {"absent", "present"}
  /\ cmContent = (IF cmRoot = "present" THEN "existing" ELSE "none")
  /\ hkPre = [cmRoot |-> cmRoot, cmContent |-> cmContent]

\* The command is parsed and its preAction hook starts.
HookStart ==
  /\ hkPc = "idle"
  /\ hkPc' = "loop"
  /\ hkPre' = [cmRoot |-> cmRoot, cmContent |-> cmContent]
  /\ UNCHANGED <<hkRegistry, hkIdx, hkLog, cmRoot, cmContent, coreVars, seVars, prVars,
                 auVars, tpVars, rcVars, rmVars>>

\* The loop passes an engine without syncConfig.
SkipEngine ==
  /\ hkPc = "loop"
  /\ hkIdx < Len(hkRegistry)
  /\ ~DefinesSyncConfig(hkIdx)
  /\ hkIdx' = hkIdx + 1
  /\ UNCHANGED <<hkPc, hkRegistry, hkLog, cmRoot, cmContent, hkPre, coreVars, seVars,
                 prVars, auVars, tpVars, rcVars, rmVars>>

\* The loop calls syncConfig of the engine it is at and awaits it.
StartSync ==
  /\ hkPc = "loop"
  /\ hkIdx < Len(hkRegistry)
  /\ DefinesSyncConfig(hkIdx)
  /\ hkLog' = Append(hkLog, Ev("syncStart", hkIdx, TRUE))
  /\ hkPc' = "inSync"
  /\ UNCHANGED <<hkRegistry, hkIdx, cmRoot, cmContent, hkPre, coreVars, seVars, prVars,
                 auVars, tpVars, rcVars, rmVars>>

\* The awaited syncConfig settles.
FinishSync(ok) ==
  /\ hkPc = "inSync"
  /\ hkLog' = Append(hkLog, Ev("syncEnd", hkIdx, ok))
  /\ hkPc' = AfterSync(ok)
  /\ hkIdx' = hkIdx + 1
  /\ UNCHANGED <<hkRegistry, cmRoot, cmContent, hkPre, coreVars, seVars, prVars, auVars,
                 tpVars, rcVars, rmVars>>

\* After the loop: the bootstrap check, and the bootstrapWorkspace call with
\* the default template when the folder does not exist.
BootstrapCheck ==
  /\ hkPc = "loop"
  /\ hkIdx >= Len(hkRegistry)
  /\ IF NeedsBootstrap(cmRoot)
       THEN /\ hkLog' = Append(hkLog, Ev("bootstrapStart", hkIdx, TRUE))
            /\ hkPc' = "inBootstrap"
       ELSE /\ hkLog' = Append(hkLog, Ev("bootstrapSkipped", hkIdx, TRUE))
            /\ hkPc' = "hookDone"
  /\ UNCHANGED <<hkRegistry, hkIdx, cmRoot, cmContent, hkPre, coreVars, seVars, prVars,
                 auVars, tpVars, rcVars, rmVars>>

\* The awaited bootstrapWorkspace settles: the workspace is generated from
\* the default template, or the call fails with the folder part-written.
FinishBootstrap(ok) ==
  /\ hkPc = "inBootstrap"
  /\ hkLog' = Append(hkLog, Ev("bootstrapEnd", hkIdx, ok))
  /\ cmRoot' = "present"
  /\ cmContent' = (IF ok THEN "default" ELSE "partial")
  /\ hkPc' = (IF ok THEN "hookDone" ELSE "failed")
  /\ UNCHANGED <<hkRegistry, hkIdx, hkPre, coreVars, seVars, prVars, auVars, tpVars,
                 rcVars, rmVars>>

\* The hook has resolved: the command action runs.
RunAction ==
  /\ hkPc = "hookDone"
  /\ hkLog' = Append(hkLog, Ev("action", hkIdx, TRUE))
  /\ hkPc' = "done"
  /\ UNCHANGED <<hkRegistry, hkIdx, cmRoot, cmContent, hkPre, coreVars, seVars, prVars,
                 auVars, tpVars, rcVars, rmVars>>

HkNext ==
  \/ HookStart
  \/ SkipEngine
  \/ StartSync
  \/ \E ok \in BOOLEAN : FinishSync(ok)
  \/ BootstrapCheck
  \/ \E ok \in BOOLEAN : FinishBootstrap(ok)
  \/ RunAction

(***************************************************************************)
(* Template selection (handleTemplateSelectionSuccess): the tracked active *)
(* template and the agents folder generated from a template.               *)
(***************************************************************************)
\* The workflow template files that can be selected.
TemplateFiles == {"codemachine.workflow.js", "review.workflow.js", "docs.workflow.js"}

DefaultTemplate == "codemachine.workflow.js"

\* hasTemplateChanged: the selected template is not the tracked one; first is
\* its answer when no template is tracked yet.
HasTemplateChanged(tracked, selected, first) ==
  IF tracked = "none" THEN first ELSE tracked # selected

RegeneratesAlways(changed) == TRUE

\* if (changed)
Regenerates(changed) == changed

\* What a selection leaves: the tracked template, the agents folder, whether
\* the existing folder was deleted, whether bootstrapWorkspace was called,
\* and whether the handler completed.
Selected(active, agents, deleted, regenerated, result) ==
  [active |-> active, agents |-> agents, deleted |-> deleted,
   regenerated |-> regenerated, result |-> result]

\* handleTemplateSelectionSuccess for template t, with the removal of the
\* agents folder, the write of the tracking marker and the workspace
\* bootstrap each succeeding or failing; a failure ends the handler.
HandleTemplateSelectionSuccess(t, first, rmOk, setOk, bootOk) ==
  LET changed == HasTemplateChanged(activeTemplate, t, first)
      exists == agentsDir # "absent"
  IN  IF Regenerates(changed)
        THEN (IF exists /\ ~rmOk
                THEN Selected(activeTemplate, "partial", FALSE, FALSE, "failed")
              ELSE IF ~setOk
                THEN Selected(activeTemplate, "absent", exists, FALSE, "failed")
              ELSE IF ~bootOk
                THEN Selected(t, "partial", exists, TRUE, "failed")
              ELSE Selected(t, t, exists, TRUE, "ok"))
      ELSE IF ~setOk
        THEN Selected(activeTemplate, agentsDir, FALSE, FALSE, "failed")
      ELSE Selected(t, agentsDir, FALSE, FALSE, "ok")

NoSelection ==
  [template |-> "none", pre |-> [active |-> "none", agents |-> "absent"],
   out |-> Selected("none", "absent", FALSE, FALSE, "none")]

TpIdle ==
  /\ activeTemplate = "none"
  /\ agentsDir = "absent"
  /\ tplCall = NoSelection

\* A workspace that tracks no template yet, without agents or with those of
\* the default template, or one that tracks the template its agents were
\* generated from.
TpInit ==
  /\ activeTemplate \in {"none"} \cup TemplateFiles
  /\ agentsDir \in {"absent"} \cup TemplateFiles
  /\ IF activeTemplate = "none"
       THEN agentsDir \in {"absent", DefaultTemplate}
       ELSE agentsDir = activeTemplate
  /\ tplCall = NoSelection

\* A template is selected (by number or from the menu) and loads as a
\* workflow template; an error of the handler is caught and printed.
SelectTemplate(t, first, rmOk, setOk, bootOk) ==
  LET out == HandleTemplateSelectionSuccess(t, first, rmOk, setOk, bootOk) IN
    /\ activeTemplate' = out.active
    /\ agentsDir' = out.agents
    /\ tplCall' = [template |-> t,
                   pre |-> [active |-> activeTemplate, agents |-> agentsDir],
                   out |-> out]
    /\ UNCHANGED <<coreVars, seVars, prVars, auVars, hkVars, rcVars, rmVars>>

TpNext ==
  \E t \in TemplateFiles, first \in BOOLEAN, rmOk \in BOOLEAN, setOk \in BOOLEAN,
     bootOk \in BOOLEAN :
    SelectTemplate(t, first, rmOk, setOk, bootOk)

(***************************************************************************)
(* Retry/recovery controller over the task ledger                          *)
(***************************************************************************)
MaxTasks == 3
MaxHalts == 2

\* The steps of the workflow a task can belong to.
LedgerSteps == 0..2

Task(step, done) == [step |-> step, done |-> done]

\* Ledgers of 1..MaxTasks tasks, each at a step, done or not.
Ledgers ==
  UNION {[1..n -> [step : LedgerSteps, done : BOOLEAN]] : n \in 1..MaxTasks}

AllDone(l) == \A k \in 1..Len(l) : l[k].done

ResumeStepZero(l) == 0

\* The step of the first incomplete task of the ledger.
ResumeStep(l) ==
  l[CHOOSE k \in 1..Len(l) : ~l[k].done /\ \A j \in 1..(k - 1) : l[j].done].step

RcIdle ==
  /\ ledger = <<>>
  /\ rcPc = "finalized"
  /\ rcEntry = 0
  /\ rcCursor = 0
  /\ rcSignals = 0
  /\ rcReentries = 0
  /\ rcHalts = 0

\* A workflow run entered at step 0 over any ledger.
RcInit ==
  /\ ledger \in Ledgers
  /\ rcPc = "running"
  /\ rcEntry = 0
  /\ rcCursor = 0
  /\ rcSignals = 0
  /\ rcReentries = 0
  /\ rcHalts = 0

\* The workflow executes the step it is at: the tasks of the step that pass
\* their acceptance check become done, and the run completes past the last
\* step.
RcStep(ok) ==
  /\ rcPc = "running"
  /\ ledger' = [k \in 1..Len(ledger) |->
                  IF ledger[k].step = rcCursor
                    THEN Task(ledger[k].step, ledger[k].done \/ ok)
                    ELSE ledger[k]]
  /\ rcCursor' = rcCursor + 1
  /\ rcPc' = IF rcCursor + 1 > 2 THEN "completed" ELSE "running"
  /\ UNCHANGED <<rcEntry, rcSignals, rcReentries, rcHalts, coreVars, seVars, prVars,
                 auVars, hkVars, tpVars, rmVars>>

\* The run halts before full completion.
RcHalt ==
  /\ rcPc = "running"
  /\ rcHalts < MaxHalts
  /\ rcHalts' = rcHalts + 1
  /\ rcPc' = "halted"
  /\ UNCHANGED <<ledger, rcEntry, rcCursor, rcSignals, rcReentries, coreVars, seVars,
                 prVars, auVars, hkVars, tpVars, rmVars>>

\* The controller runs: it finalizes when every task is done and re-enters
\* the workflow at the first incomplete task otherwise.
Recover ==
  /\ rcPc = "halted"
  /\ IF AllDone(ledger)
       THEN /\ rcSignals' = rcSignals + 1
            /\ rcPc' = "finalized"
            /\ UNCHANGED <<rcEntry, rcCursor, rcReentries>>
       ELSE /\ rcEntry' = ResumeStep(ledger)
            /\ rcCursor' = ResumeStep(ledger)
            /\ rcReentries' = rcReentries + 1
            /\ rcPc' = "running"
            /\ UNCHANGED rcSignals
  /\ UNCHANGED <<ledger, rcHalts, coreVars, seVars, prVars, auVars, hkVars, tpVars,
                 rmVars>>

RcNext ==
  \/ \E ok \in BOOLEAN : RcStep(ok)
  \/ RcHalt
  \/ Recover

(***************************************************************************)
(* resolveModel: generic model names to Local models                       *)
(***************************************************************************)
MaxResolveCalls == 2

\* undefined
Undefined == "<undefined>"

\* A member of Object.prototype, as a property lookup returns it.
PrototypeMember == "<Object.prototype member>"

\* LOCAL_MODELS
LocalModels ==
  {"auto", "qwen3-coder-30b-a3b-instruct", "unsloth/glm-4.5-air", "openai/gpt-oss-120b"}

\* The keys of MODEL_MAPPING; every one maps to LOCAL_MODELS.QWEN_3_CODER.
ModelMappingKeys ==
  {"gpt-5-codex", "gpt-4", "gpt-4-turbo", "gpt-3.5-turbo", "o1-preview", "o1-mini",
   "sonnet", "claude-sonnet-4.5", "opus"}

\* Property names every object literal inherits.
ObjectPrototypeKeys == {"constructor", "toString", "hasOwnProperty"}

\* model in MODEL_MAPPING: own and inherited properties.
InModelMapping(model) == model \in ModelMappingKeys \cup ObjectPrototypeKeys

\* MODEL_MAPPING[model]
ModelMapping(model) ==
  IF model \in ModelMappingKeys THEN "qwen3-coder-30b-a3b-instruct"
  ELSE IF model \in ObjectPrototypeKeys THEN PrototypeMember
  ELSE Undefined

\* resolveModel
ResolveModel(model) ==
  IF model = Undefined \/ model = "" THEN Undefined
  ELSE IF InModelMapping(model) THEN ModelMapping(model)
  ELSE IF model \in LocalModels THEN model
  ELSE Undefined

\* Model names: none, empty, mapped, Local, unknown, and inherited property
\* names.
ModelNames ==
  {Undefined, "", "gpt-4o", "llama-3"} \cup ModelMappingKeys \cup LocalModels
    \cup ObjectPrototypeKeys

RmIdle == rmCalls = <<>>

RmInit == RmIdle

\* resolveModel is called with a model name.
CallResolveModel(model) ==
  /\ Len(rmCalls) < MaxResolveCalls
  /\ rmCalls' = Append(rmCalls, [model |-> model, result |-> ResolveModel(model)])
  /\ UNCHANGED <<coreVars, seVars, prVars, auVars, hkVars, tpVars, rcVars>>

RmNext == \E model \in ModelNames : CallResolveModel(model)

(***************************************************************************)
(* Workflow execution engine: cursor, loop-back, one-shot steps            *)
(***************************************************************************)
Step(i) == template[i + 1]

\* The step's output matches the trigger when it contains the trigger text.
Matches(out, trigger) == trigger \in out

StepOutputs == SUBSET Triggers

ShouldPassOverSkipListOnly(i) == template[i + 1].agentId \in activeLoop

\* A step the cursor passes over without invoking it: a one-shot step that
\* already completed, or a step listed in the skip of the loop being replayed.
ShouldPassOver(i) ==
  \/ Step(i).executeOnce /\ i \in completedSteps
  \/ Step(i).agentId \in activeLoop

ShouldLoopBackOneShort(i, out) ==
  LET b == Step(i).behavior IN
    /\ b.type = "loop"
    /\ Matches(out, b.trigger)
    /\ loopCount[b.trigger] + 1 < b.maxIterations

\* The loop-back decision for step i, given its output.
ShouldLoopBack(i, out) ==
  LET b == Step(i).behavior IN
    /\ b.type = "loop"
    /\ Matches(out, b.trigger)
    /\ loopCount[b.trigger] < b.maxIterations

LoopTargetUnclamped(i, b) == i - b.steps

LoopTarget(i, b) == Max(0, i - b.steps)

NextLoopCountNotCounted(b) == loopCount

NextLoopCount(b) == [loopCount EXCEPT ![b.trigger] = @ + 1]

\* The invocation record of a run that is not traced.
Untraced == <<"untraced">>

\* The engine before any run is loaded.
WfIdle ==
  /\ template = <<>>
  /\ cursor = 0
  /\ loopCount = [t \in Triggers |-> 0]
  /\ completedSteps = {}
  /\ activeLoop = {}
  /\ stepOutput = {}
  /\ lastInvoked = -1
  /\ invoked = Untraced

WfInit ==
  /\ template \in WorkflowTemplates
  /\ cursor = 0
  /\ loopCount = [t \in Triggers |-> 0]
  /\ completedSteps = {}
  /\ activeLoop = {}
  /\ stepOutput = {}
  /\ lastInvoked = -1
  /\ invoked = Untraced

\* One engine iteration that invokes the step under the cursor: the engine's
\* run returns (ok: it succeeded) with output out, and the cursor moves.
ExecuteStep(ok, out) ==
  /\ cursor < Len(template)
  /\ ~ShouldPassOver(cursor)
  /\ lastInvoked' = cursor
  /\ invoked' = IF invoked = Untraced THEN invoked ELSE Append(invoked, Step(cursor).agentId)
  /\ stepOutput' = out
  /\ completedSteps' = IF ok THEN completedSteps \cup {cursor} ELSE completedSteps
  /\ LET b == Step(cursor).behavior IN
       IF ShouldLoopBack(cursor, out)
         THEN /\ cursor' = LoopTarget(cursor, b)
              /\ loopCount' = NextLoopCount(b)
              /\ activeLoop' = b.skip
         ELSE /\ cursor' = cursor + 1
              /\ loopCount' = loopCount
              /\ activeLoop' = IF b.type = "loop" THEN {} ELSE activeLoop
  /\ UNCHANGED <<template, trVars, rlVars, memVars, extVars>>

\* One engine iteration at a step that is passed over.
PassOver ==
  /\ cursor < Len(template)
  /\ ShouldPassOver(cursor)
  /\ cursor' = cursor + 1
  /\ lastInvoked' = -1
  /\ UNCHANGED <<template, loopCount, completedSteps, activeLoop, stepOutput, invoked,
                 trVars, rlVars, memVars, extVars>>

WfNext ==
  \/ \E ok \in BOOLEAN, out \in StepOutputs : ExecuteStep(ok, out)
  \/ PassOver

\* ---- Scenario A
\* The template [Plan, Build, Test] whose Test step loops back one step on
\* FAIL, at most twice.
ScenarioA ==
  [k \in 1..NumSteps |->
     WorkflowStep(k, FALSE,
                  IF AgentIds[k] = "Test"
                    THEN [type |-> "loop", action |-> "stepBack", steps |-> 1,
                          trigger |-> "FAIL", maxIterations |-> 2, skip |-> {}]
                    ELSE NoBehavior)]

\* Number of invocations of an agent so far in a traced run.
Invocations(agentId) == Cardinality({k \in 1..Len(invoked) : invoked[k] = agentId})

\* The outputs of the scenario: Test's first two outputs contain FAIL and
\* its later ones do not; every other step outputs anything.
ScenarioAOutputs(agentId) ==
  IF agentId # "Test" THEN StepOutputs
  ELSE IF Invocations("Test") < 2 THEN {out \in StepOutputs : "FAIL" \in out}
  ELSE {out \in StepOutputs : "FAIL" \notin out}

\* A traced run of the engine on the scenario's template.
ScenarioAInit ==
  /\ template = ScenarioA
  /\ cursor = 0
  /\ loopCount = [t \in Triggers |-> 0]
  /\ completedSteps = {}
  /\ activeLoop = {}
  /\ stepOutput = {}
  /\ lastInvoked = -1
  /\ invoked = <<>>

\* The engine's iterations in the scenario: no step of its template is ever
\* passed over.
ScenarioANext ==
  \E ok \in BOOLEAN, out \in StepOutputs :
    /\ cursor < Len(template)
    /\ out \in ScenarioAOutputs(Step(cursor).agentId)
    /\ ExecuteStep(ok, out)

(***************************************************************************)
(* Specifications                                                          *)
(***************************************************************************)
CliIdle == HkIdle /\ TpIdle /\ RcIdle /\ RmIdle

ExtIdle == SeIdle /\ PrIdle /\ AuIdle /\ CliIdle

InitWorkflow == WfInit /\ TrIdle /\ RlIdle /\ plainLogs = FALSE /\ MemIdle /\ ExtIdle

InitTracker == TrInit /\ WfIdle /\ RlIdle /\ plainLogs = FALSE /\ MemIdle /\ ExtIdle

InitRunLocal == RlInit /\ WfIdle /\ TrIdle /\ MemIdle /\ ExtIdle

InitMemory == MemInit /\ WfIdle /\ TrIdle /\ RlIdle /\ plainLogs = FALSE /\ ExtIdle

InitRunner ==
  /\ PrInit /\ WfIdle /\ TrIdle /\ RlIdle /\ plainLogs = FALSE /\ MemIdle /\ SeIdle /\ AuIdle
  /\ CliIdle

InitAuth ==
  /\ AuInit /\ WfIdle /\ TrIdle /\ RlIdle /\ plainLogs = FALSE /\ MemIdle /\ SeIdle /\ PrIdle
  /\ CliIdle

InitScenarioA ==
  ScenarioAInit /\ TrIdle /\ RlIdle /\ plainLogs = FALSE /\ MemIdle /\ ExtIdle

\* The engine on Scenario A, every invocation succeeding or failing.
SpecScenarioA == InitScenarioA /\ [][ScenarioANext]_vars

\* Engine runs for the agents, in any order, each succeeding or failing.
SpecMemory == InitMemory /\ [][MemNext]_vars

\* runLocal on any options, spawnProcess settling in any way it can, with
\* results of up to MaxLines lines and a brief stdout stream.
SpecRunLocal == InitRunLocal /\ [][RlNext(BriefChunks, ResultTexts)]_vars

\* runLocal on any options with any stdout stream of up to MaxChunks chunks
\* of at most two lines, and brief results.
SpecStream == InitRunLocal /\ [][RlNext(StdoutChunks, BriefTexts)]_vars

SpecWorkflow == InitWorkflow /\ [][WfNext]_vars

\* The engine keeps iterating while the cursor is on a step: every step
\* invocation returns, so an enabled engine move is eventually taken.
SpecWorkflowFair == InitWorkflow /\ [][WfNext]_vars /\ WF_vars(WfNext)

SpecTracker == InitTracker /\ [][TrNext]_vars

\* runLocal on any options with one stderr chunk of up to MaxChunkLen
\* characters.
SpecStderr == InitRunLocal /\ [][StderrNext]_vars

\* One call of runLocal and the chunks of its stderr stream.
SpecStderrStream == InitRunLocal /\ [][StderrStreamNext]_vars

\* One process runner call under any timeout option. Time does not stop and
\* the runner's timer and exit handlers run when their event is due, so an
\* enabled runner step is eventually taken.
SpecRunner == InitRunner /\ [][PrNext]_vars /\ WF_vars(PrNext)

\* Auth calls of one provider in any order.
SpecAuth == InitAuth /\ [][AuNext]_vars

CoreIdle == WfIdle /\ TrIdle /\ RlIdle /\ plainLogs = FALSE /\ MemIdle /\ SeIdle /\ PrIdle /\ AuIdle

InitHook == HkInit /\ CoreIdle /\ TpIdle /\ RcIdle /\ RmIdle

InitTemplates == TpInit /\ CoreIdle /\ HkIdle /\ RcIdle /\ RmIdle

InitRecovery == RcInit /\ CoreIdle /\ HkIdle /\ TpIdle /\ RmIdle

InitResolve == RmInit /\ CoreIdle /\ HkIdle /\ TpIdle /\ RcIdle

\* One CLI command: its preAction hook and its action.
SpecHook == InitHook /\ [][HkNext]_vars

\* Template selections in any order, each of its filesystem steps
\* succeeding or failing.
SpecTemplates == InitTemplates /\ [][TpNext]_vars

\* A workflow run over a task ledger, halted up to MaxHalts times.
SpecRecovery == InitRecovery /\ [][RcNext]_vars

\* Up to MaxResolveCalls calls of resolveModel.
SpecResolve == InitResolve /\ [][RmNext]_vars

(***************************************************************************)
(* Claims about the workflow engine                                        *)
(***************************************************************************)
\* C1: after step i with a LoopBehavior is executed, the cursor is
\* max(0, i - steps) and the trigger's count is one higher when the output
\* matches the trigger and the count was below maxIterations, and i + 1 with
\* the counts unchanged otherwise; a step listed in the skip of the loop being
\* replayed is never the one invoked; the cursor always lies in
\* 0..(number of steps).
C1_LoopBackCursor ==
  /\ [](cursor \in 0..Len(template))
  /\ [][lastInvoked' # -1 /\ template[cursor + 1].behavior.type = "loop" =>
          LET i == cursor
              b == template[i + 1].behavior
          IN  /\ template[i + 1].agentId \notin activeLoop
              /\ IF b.trigger \in stepOutput' /\ loopCount[b.trigger] < b.maxIterations
                    THEN /\ cursor' = (IF i - b.steps < 0 THEN 0 ELSE i - b.steps)
                         /\ loopCount'[b.trigger] = loopCount[b.trigger] + 1
                    ELSE /\ cursor' = i + 1
                         /\ loopCount' = loopCount]_vars

\* C1 witness: a loop-back whose target i - steps is negative was clamped to 0.
C1_Witness ==
  /\ lastInvoked >= 0
  /\ template[lastInvoked + 1].behavior.type = "loop"
  /\ template[lastInvoked + 1].behavior.steps > lastInvoked
  /\ template[lastInvoked + 1].behavior.trigger \in stepOutput
  /\ loopCount[template[lastInvoked + 1].behavior.trigger] > 0
  /\ cursor = 0

\* The largest maxIterations among the loops declared on trigger t.
LoopLimit(t) ==
  LET ms == {template[k].behavior.maxIterations :
               k \in {j \in 1..Len(template) :
                        template[j].behavior.type = "loop" /\ template[j].behavior.trigger = t}}
  IN  IF ms = {} THEN 0 ELSE CHOOSE m \in ms : \A n \in ms : n <= m

C4_OneShotNeverReinvoked ==
  [][lastInvoked' # -1 =>
       ~(template[cursor + 1].executeOnce /\ cursor \in completedSteps)]_vars

\* C4 witness: after a loop-back the cursor has just passed over a completed
\* executeOnce step (no skip list was active).
C4_Witness ==
  /\ lastInvoked = -1
  /\ activeLoop = {}
  /\ cursor >= 1
  /\ template[cursor].executeOnce
  /\ (cursor - 1) \in completedSteps
  /\ \E t \in Triggers : loopCount[t] > 0

(***************************************************************************)
(* Claims about runLocal                                                   *)
(***************************************************************************)
\* C5: an invocation calls spawnProcess at most once: once when prompt and
\* workingDir are both non-empty, and not at all when either is empty, in
\* which case it has thrown an error and nothing was spawned.
C5_AtMostOneSpawn ==
  /\ spawnCalls <= 1
  /\ rlPc # "idle" =>
       IF rlOptions.prompt # "" /\ rlOptions.workingDir # ""
         THEN spawnCalls = 1
         ELSE /\ spawnCalls = 0
              /\ rlPc = "threw"
              /\ rlError.kind = "Error"
              /\ spawnSettled = NoValue

\* C5 witness: a call with a prompt and a working directory returned after
\* exactly one spawn.
C5_Witness ==
  /\ rlPc = "returned"
  /\ rlOptions.prompt # ""
  /\ rlOptions.workingDir # ""
  /\ spawnCalls = 1

\* The first at most DiagLimit lines of a text.
FirstLines(text) ==
  LET lines == SplitLF(text)
  IN  [k \in 1..(IF Len(lines) < 10 THEN Len(lines) ELSE 10) |-> lines[k]]

\* C6 as stated: on a non-zero exit runLocal throws the error naming the exit
\* code, returns nothing, and logs the first at most 10 lines of the trimmed
\* stderr, or of the trimmed stdout when stderr is blank.
C6_DiagnosticsAsStated ==
  (spawnSettled.kind = "resolved" /\ spawnSettled.exitCode # 0) =>
    /\ rlPc = "threw"
    /\ rlError.message = "Local CLI exited with code"
    /\ rlError.exitCode = spawnSettled.exitCode
    /\ rlResult = NoValue
    /\ rlDiagnostics =
         (IF Trim(spawnSettled.stderr) # <<>>
            THEN FirstLines(Trim(spawnSettled.stderr))
            ELSE FirstLines(Trim(spawnSettled.stdout)))

\* C6 amended: as stated, except that when stderr and stdout are both blank
\* the diagnostics are the single line 'no error output'.
C6_Diagnostics ==
  (spawnSettled.kind = "resolved" /\ spawnSettled.exitCode # 0) =>
    /\ rlPc = "threw"
    /\ rlError.message = "Local CLI exited with code"
    /\ rlError.exitCode = spawnSettled.exitCode
    /\ rlResult = NoValue
    /\ rlDiagnostics =
         (IF Trim(spawnSettled.stderr) # <<>>
            THEN FirstLines(Trim(spawnSettled.stderr))
            ELSE IF Trim(spawnSettled.stdout) # <<>>
              THEN FirstLines(Trim(spawnSettled.stdout))
              ELSE <<<<"no error output">>>>)

\* C6 witness: a non-zero exit whose trimmed stderr has more than 10 lines;
\* 10 lines were logged.
C6_Witness ==
  /\ spawnSettled.kind = "resolved"
  /\ spawnSettled.exitCode # 0
  /\ Len(SplitLF(Trim(spawnSettled.stderr))) > 10
  /\ Len(rlDiagnostics) = 10

\* C7: when spawnProcess rejects with a command-not-found error (code ENOENT
\* or one of the two shell messages) runLocal throws an error naming the
\* command and the install instruction of the engine's metadata; when it
\* rejects with any other error, runLocal throws that very error.
C7_SpawnErrors ==
  spawnSettled.kind = "rejected" =>
    /\ rlPc = "threw"
    /\ rlResult = NoValue
    /\ LET e == spawnSettled.error IN
         IF \/ e.code = "ENOENT"
            \/ e.message \in {"is not recognized as an internal or external command",
                               "command not found"}
           THEN /\ {"command", "install"} \subseteq DOMAIN rlError
                /\ rlError.command = "curl"
                /\ rlError.install = "Install LM Studio from https://lmstudio.ai/"
           ELSE rlError = e

\* C7 witness: spawnProcess rejected with a permission error and runLocal
\* threw it unchanged.
C7_Witness ==
  /\ spawnSettled.kind = "rejected"
  /\ spawnSettled.error.code = "EACCES"
  /\ spawnSettled.error.message = "spawn failed"
  /\ rlError = spawnSettled.error

\* C8: every argument of an onData call is a decoded progress line ending in
\* a newline, and there are exactly as many calls as chunks that decode to a
\* line: a chunk that decodes to nothing causes no call.
C8_OnlyDecodedLines ==
  /\ \A k \in 1..Len(onDataLog) :
       onDataLog[k].kind \in ProgressKinds /\ onDataLog[k].newline
  /\ Len(onDataLog) =
       Cardinality({k \in 1..Len(stdoutSeen) :
                      FormatLocalStreamJsonLine(StreamData(stdoutSeen[k])) # NullLine})

\* C8 witness: a lifecycle event that decodes to nothing, then a message;
\* onData was called once, with the message line.
C8_Witness ==
  /\ Len(stdoutSeen) = 2
  /\ stdoutSeen[1] = <<"started", LF>>
  /\ onDataLog = <<[kind |-> "MESSAGE", newline |-> TRUE]>>

\* The progress lines of the protocol lines of a stream, line by line.
RECURSIVE DecodedLines(_)
DecodedLines(lines) ==
  IF lines = <<>> THEN <<>>
  ELSE OnDataCalls(FormatLocalStreamJsonLine(Head(lines))) \o DecodedLines(Tail(lines))

CountKind(calls, kind) == Cardinality({k \in 1..Len(calls) : calls[k].kind = kind})

\* C9 as stated: the stream raises no error, and every parsable event line
\* of the stdout stream has been decoded and forwarded to onData, whatever
\* unparsable lines surround it.
C9_ParsableLinesForwarded ==
  /\ rlPc = "spawned" => rlError = NoValue
  /\ \A kind \in ProgressKinds :
       CountKind(DecodedLines(SplitLF(Flatten(stdoutSeen))), kind)
         <= CountKind(onDataLog, kind)

(***************************************************************************)
(* Claims about the memory store                                           *)
(***************************************************************************)
\* C10: an agent's memory file is empty until its first successful run and
\* afterwards holds exactly the sanitized output of its latest successful
\* run, whatever failed runs and other agents' runs came in between.
C10_MemoryOverwrite ==
  \A a \in MemoryAgents :
    IF successes[a] = 0
      THEN memory[a] = <<>>
      ELSE memory[a] = SelectSeq(lastSuccess[a], LAMBDA c : c # "boilerplate")

\* C10 witness: an agent ran successfully twice and then a run failed; its
\* non-empty memory is not the concatenation of anything longer.
C10_Witness ==
  \E a \in MemoryAgents :
    /\ successes[a] = 2
    /\ runsDone = 3
    /\ memory[a] = <<"x">>
    /\ lastSuccess[a] = <<"boilerplate", "x">>

(***************************************************************************)
(* Claims about the instance tracker                                       *)
(***************************************************************************)

\* C3: an instance enters the tracker in state running, and an instance whose
\* state is completed, error or terminated keeps that state in every later
\* step, whatever outcomes are reported and recorded afterwards.
C3_InstanceTerminality ==
  [][\A id \in InstanceIds :
       /\ (instances[id] = "absent" /\ instances'[id] # "absent") => instances'[id] = "running"
       /\ instances[id] \in TerminalStates => instances'[id] = instances[id]]_vars

\* C3 witness: an instance completed, and a timeout and a cancellation
\* reported for it were recorded afterwards.
C3_Witness ==
  \E id \in InstanceIds :
    /\ instances[id] = "completed"
    /\ {<<id, "timeout">>, <<id, "cancel">>} \subseteq raised
    /\ \A sig \in signals : sig.id # id

(***************************************************************************)
(* Claims about the process runner                                         *)
(***************************************************************************)

\* C11: a call given no timeout runs under 1,800,000 ms; a child never keeps
\* running past the timeout; a call that failed with a Timeout error sent the
\* child a termination signal and its instance is terminated from then on,
\* never completed; and a child that would run longer than the timeout ends
\* with the call failing by Timeout (or by cancellation, when the cancel
\* token is triggered first).
C11_Timeout ==
  /\ [](/\ (prPc # "idle" /\ prOption = NoValue) => prTimeoutMs = 1800000
        /\ prPc = "running" => prElapsed <= prTimeoutMs
        /\ prOutcome.kind = "Timeout" =>
             /\ prElapsed = prTimeoutMs
             /\ prSignals = <<"SIGTERM">>
             /\ instances[PrInstance] = "terminated"
        /\ (prPc = "settled" /\ prSleepMs > prTimeoutMs) =>
             /\ prOutcome.kind \in {"Timeout", "Cancelled"}
             /\ instances[PrInstance] = "terminated")
  /\ ((prPc = "running" /\ prSleepMs > prTimeoutMs)
        ~> (prPc = "settled" /\ prOutcome.kind \in {"Timeout", "Cancelled"}))

\* C11 witness: a call given no timeout, on a child that runs longer than the
\* default, failed with Timeout at 1,800,000 ms, and the exit of the
\* signalled child has reached the tracker.
C11_Witness ==
  /\ prPc = "settled"
  /\ prOption = NoValue
  /\ prSleepMs = 2000000
  /\ prElapsed = 1800000
  /\ prOutcome.kind = "Timeout"
  /\ instances[PrInstance] = "terminated"

(***************************************************************************)
(* Claims about normalize                                                  *)
(***************************************************************************)
HasCR(s) == \E k \in 1..Len(s) : s[k] = CR

HasTripleLF(s) == \E k \in 1..(Len(s) - 2) : s[k] = LF /\ s[k + 1] = LF /\ s[k + 2] = LF

\* The text after the last carriage return of a line, the line when it has none.
AfterLastCR(line) ==
  LET crs == {k \in 1..Len(line) : line[k] = CR} IN
    IF crs = {} THEN line
    ELSE SubStr(line, (CHOOSE k \in crs : \A j \in crs : j <= k) + 1, Len(line))

RECURSIVE JoinLF(_)
JoinLF(lines) ==
  IF Len(lines) = 1 THEN lines[1]
  ELSE lines[1] \o <<LF>> \o JoinLF(Tail(lines))

\* What a terminal shows of a chunk: of every line, the text after its last
\* carriage return.
TerminalView(chunk) ==
  LET lines == SplitLF(chunk)
  IN  JoinLF([k \in 1..Len(lines) |-> AfterLastCR(lines[k])])

\* C12: the normalized chunk is, line by line, the text that follows the last
\* carriage return of the line (stated for the chunks whose lines leave no
\* run of blank lines to collapse).
C12_LastCarriageReturnWins ==
  (stderrChunk # NoChunk /\ ~HasTripleLF(TerminalView(stderrChunk)))
    => onErrorData = TerminalView(stderrChunk)

\* A text whose line endings are all CRLF: every carriage return is followed
\* by a line feed and every line feed follows a carriage return.
IsCRLFText(s) ==
  \A k \in 1..Len(s) :
    /\ s[k] = CR => (k < Len(s) /\ s[k + 1] = LF)
    /\ s[k] = LF => (k > 1 /\ s[k - 1] = CR)

\* C13: for a chunk whose line endings are all CRLF, the normalized chunk is
\* the chunk without its carriage returns: the text of every line is kept and
\* each CRLF is one line feed (stated for the chunks without a run of blank
\* lines to collapse).
C13_CRLFKeepsText ==
  LET expected == SelectSeq(stderrChunk, LAMBDA c : c # CR) IN
    (stderrChunk # NoChunk /\ HasCR(stderrChunk) /\ IsCRLFText(stderrChunk)
       /\ ~HasTripleLF(expected))
      => onErrorData = expected

\* The lengths of the runs of line feeds of a text, in order.
RECURSIVE LFRuns(_, _)
LFRuns(s, run) ==
  IF s = <<>> THEN (IF run > 0 THEN <<run>> ELSE <<>>)
  ELSE IF Head(s) = LF THEN LFRuns(Tail(s), run + 1)
  ELSE (IF run > 0 THEN <<run>> ELSE <<>>) \o LFRuns(Tail(s), 0)

\* C14: the normalized chunk holds no carriage return and no run of two or
\* more blank lines, and a chunk with a run of 3 or more blank lines (4 or
\* more line feeds in a row) is normalized to a text with a blank line; for a
\* chunk without carriage returns the runs of line feeds are those of the
\* chunk in order, each of 3 or more line feeds cut to 2.
C14_NoCRAndBlankRunsCollapsed ==
  stderrChunk # NoChunk =>
    /\ ~HasCR(onErrorData)
    /\ ~HasTripleLF(onErrorData)
    /\ (\E k \in 1..(Len(stderrChunk) - 3) :
          \A j \in k..(k + 3) : stderrChunk[j] = LF)
         => \E k \in 1..(Len(onErrorData) - 1) :
              onErrorData[k] = LF /\ onErrorData[k + 1] = LF
    /\ ~HasCR(stderrChunk) =>
         LET runs == LFRuns(stderrChunk, 0) IN
           /\ LFRuns(onErrorData, 0) = [k \in 1..Len(runs) |-> IF runs[k] >= 3 THEN 2 ELSE runs[k]]
           /\ SelectSeq(onErrorData, LAMBDA c : c # LF) = SelectSeq(stderrChunk, LAMBDA c : c # LF)

\* C14 witness: the chunk "a", four line feeds, "b" reached onErrorData as
\* "a", two line feeds, "b".
C14_Witness ==
  /\ stderrChunk = <<"a", LF, LF, LF, LF, "b">>
  /\ onErrorData = <<"a", LF, LF, "b">>

(***************************************************************************)
(* Claims about engine authentication                                      *)
(***************************************************************************)
\* The latest call was op, made with no credential present: no credential
\* file and no token in the environment.
CalledWithoutCredential(op) ==
  /\ auCall.op = op
  /\ auCall.pre.authFiles[Cred] = "absent"
  /\ ~auCall.pre.envToken

\* C15: after isAuthenticated, whatever it returned, the home directory, the
\* auth files and the environment are what they were before the call.
C15_IsAuthenticatedNoSideEffects ==
  auCall.op = "isAuthenticated" => Snapshot = auCall.pre

C17_MissingCliFailsFast ==
  (CalledWithoutCredential("ensureAuth") /\ ~auCall.pre.skipAuth /\ ~cliInstalled
     /\ auCall.pre.homeDir # "blocked") =>
    /\ auCall.out.result = "threw"
    /\ auCall.out.error = CliNotInstalled
    /\ auCall.out.shown
    /\ "login" \notin Range(auCall.out.commands)
    /\ authFiles = auCall.pre.authFiles

\* C18: clearAuth completes without an error in every filesystem state.
C18_ClearAuthNeverFails ==
  auCall.op = "clearAuth" => auCall.out.result = "void"

\* C19: after ensureAuth called with no credential present and skip-auth
\* unset, whose login command finished without producing a credential, the
\* call failed with an error.
C19_IncompleteLoginFails ==
  (CalledWithoutCredential("ensureAuth") /\ ~auCall.pre.skipAuth
     /\ auCall.login = "noCredential") =>
    auCall.out.result = "threw"

SyncIds(reg) ==
  SelectSeq([i \in 1..Len(reg) |-> i - 1], LAMBDA i : reg[i + 1])

SyncEvents == {"syncStart", "syncEnd"}

\* C21: the calls of one command are, in order: for each registered engine
\* that defines syncConfig, in registry order, the start of its syncConfig
\* followed at once by the end of that same call; only after all of them
\* ended, and ended without failure, the bootstrap check and the action; and
\* once a syncConfig has failed nothing more is called: no later
\* syncConfig, no bootstrap, no action.
C21_SyncBeforeBootstrapInOrder ==
  LET ids == SyncIds(hkRegistry) IN
    \A k \in 1..Len(hkLog) :
      /\ hkLog[k].ev \in SyncEvents =>
           /\ k <= 2 * Len(ids)
           /\ hkLog[k].ev = (IF k % 2 = 1 THEN "syncStart" ELSE "syncEnd")
           /\ hkLog[k].id = ids[(k + 1) \div 2]
      /\ hkLog[k].ev \notin SyncEvents =>
           /\ k > 2 * Len(ids)
           /\ \A j \in 1..(2 * Len(ids)) : hkLog[j].ev \in SyncEvents /\ hkLog[j].ok
      /\ (hkLog[k].ev = "syncEnd" /\ ~hkLog[k].ok) => k = Len(hkLog)

\* C21 witness: of three registered engines the first and the third define
\* syncConfig; both were synced and the command action ran.
C21_Witness ==
  /\ hkRegistry = <<TRUE, FALSE, TRUE>>
  /\ Len(hkLog) >= 6
  /\ hkLog[4] = Ev("syncEnd", 2, TRUE)
  /\ hkLog[Len(hkLog)].ev = "action"

\* C22: the hook calls bootstrapWorkspace only when <cwd>/.codemachine did
\* not exist when the hook started, and skips it only when it did; a
\* bootstrap that succeeds leaves the workspace of the default template; and
\* when the folder existed, the folder and what is under it are as they were
\* in every state of the command.
C22_BootstrapExactlyWhenAbsent ==
  /\ \A k \in 1..Len(hkLog) :
       /\ hkLog[k].ev = "bootstrapStart" => hkPre.cmRoot = "absent"
       /\ hkLog[k].ev = "bootstrapSkipped" => hkPre.cmRoot = "present"
       /\ (hkLog[k].ev = "bootstrapEnd" /\ hkLog[k].ok /\ k = Len(hkLog)) =>
            (cmRoot = "present" /\ cmContent = "default")
  /\ hkPc \in {"inBootstrap", "hookDone", "done"} =>
       \E k \in 1..Len(hkLog) : hkLog[k].ev \in {"bootstrapStart", "bootstrapSkipped"}
  /\ (hkPc # "idle" /\ hkPre.cmRoot = "present") =>
       (cmRoot = "present" /\ cmContent = "existing")

\* C22 witness: the command ran in a directory with a .codemachine folder,
\* an engine was synced, the bootstrap was skipped and the action ran.
C22_Witness ==
  /\ hkPre.cmRoot = "present"
  /\ hkPc = "done"
  /\ cmContent = "existing"
  /\ \E k \in 1..Len(hkLog) : hkLog[k].ev = "syncEnd"
  /\ \E k \in 1..Len(hkLog) : hkLog[k].ev = "bootstrapSkipped"

\* C23: after a selection whose handler completed: when a template was
\* tracked and the selected one differs from it, the agents folder that
\* existed was deleted, the workspace was regenerated and the agents folder
\* is the one generated from the selected template; when the selected one is
\* the tracked one, the agents folder was neither deleted nor regenerated and
\* is as it was; in both cases, and when no template was tracked before, the
\* tracked template is the selected one.
C23_SelectionRegeneratesOnChange ==
  tplCall.out.result = "ok" =>
    /\ activeTemplate = tplCall.template
    /\ (tplCall.pre.active # "none" /\ tplCall.pre.active # tplCall.template) =>
         /\ tplCall.out.deleted <=> tplCall.pre.agents # "absent"
         /\ tplCall.out.regenerated
         /\ agentsDir = tplCall.template
    /\ tplCall.pre.active = tplCall.template =>
         /\ ~tplCall.out.deleted
         /\ ~tplCall.out.regenerated
         /\ agentsDir = tplCall.pre.agents

\* C23 witness: the default template was tracked with its agents folder and
\* another template was selected: the folder was deleted and regenerated
\* from the selected template, which is now the tracked one.
C23_Witness ==
  /\ tplCall.pre = [active |-> DefaultTemplate, agents |-> DefaultTemplate]
  /\ tplCall.template = "review.workflow.js"
  /\ tplCall.out.result = "ok"
  /\ tplCall.out.deleted
  /\ agentsDir = "review.workflow.js"
  /\ activeTemplate = "review.workflow.js"

\* C27: whenever a template is tracked, the agents folder exists and was
\* generated from that template.
C27_TrackedTemplateHasItsAgents ==
  activeTemplate # "none" => agentsDir = activeTemplate

\* C24: every step taken from a halted run is the controller's: when every
\* task of the ledger is done it emits one completion signal and the
\* workflow is not re-entered, then or later; when some task is not done it
\* emits no signal and re-enters the workflow with the cursor at the step of
\* the first task of the ledger that is not done, which is step 0 only when
\* that task is at step 0.
C24_RecoveryResumesAtFirstIncomplete ==
  [][/\ rcPc = "halted" =>
          IF \A k \in 1..Len(ledger) : ledger[k].done
            THEN /\ rcSignals' = rcSignals + 1
                 /\ rcReentries' = rcReentries
                 /\ rcPc' = "finalized"
            ELSE /\ rcSignals' = rcSignals
                 /\ rcReentries' = rcReentries + 1
                 /\ rcPc' = "running"
                 /\ \E k \in 1..Len(ledger) :
                      /\ ~ledger[k].done
                      /\ \A j \in 1..(k - 1) : ledger[j].done
                      /\ rcCursor' = ledger[k].step
                      /\ rcEntry' = ledger[k].step
     /\ rcPc = "finalized" => UNCHANGED rcVars]_vars

\* C24 witness: a run over a ledger whose first incomplete task was at step
\* 1 halted and was re-entered at step 1; it halted again with every task
\* done and the controller emitted the completion signal.
C24_Witness ==
  /\ rcPc = "finalized"
  /\ rcSignals = 1
  /\ rcReentries = 1
  /\ rcEntry = 1
  /\ Len(ledger) = 3

\* C29: every call of resolveModel returned undefined or one of the four
\* LOCAL_MODELS names.
C29_ResolveModelTotal ==
  \A k \in 1..Len(rmCalls) : rmCalls[k].result \in {Undefined} \cup LocalModels

\* The stdout chunks so far that are one line holding one completed event
\* whose first output item is a tool call, with an error field among errors.
CompletedToolCalls(errors) ==
  {k \in 1..Len(stdoutSeen) :
     LET body == SelectSeq(StreamData(stdoutSeen[k]), LAMBDA c : ~IsWhitespace(c)) IN
       /\ Len(body) = 1
       /\ body[1] \in EventSymbols
       /\ EventOf[body[1]].status = "completed"
       /\ EventOf[body[1]].type = "none"
       /\ EventOf[body[1]].out \in ToolCallTypes
       /\ EventOf[body[1]].error \in errors}

\* C28: every completed tool-call event of the stdout stream was forwarded
\* to onData: as a command-result line when it carries no error or an error
\* code of 0 (or none), as a command-failed line when its error code is not
\* 0.
C28_CompletedToolCallDecoded ==
  /\ Cardinality(CompletedToolCalls({"absent", "nocode", "zero"}))
       <= CountKind(onDataLog, "COMMAND RESULT")
  /\ Cardinality(CompletedToolCalls({"nonzero"}))
       <= CountKind(onDataLog, "COMMAND FAILED")

\* C26: the texts passed to onErrorData for the chunks of a stderr stream,
\* put end to end, are the normalization of the whole stream: how the
\* stream is cut into chunks makes no difference.
C26_NormalizationIndependentOfChunking ==
  Flatten(onErrorLog) = Normalize(Flatten(stderrSeen), plainLogs)

ScenarioATrace == <<"Plan", "Build", "Test", "Build", "Test", "Build", "Test">>

====
